---- MODULE Spec2Model ----
(***************************************************************************)
(* ANIMATR desktop bridge (src/desktop/src-tauri/src/lib.rs): the Tauri    *)
(* commands that run `python -m animatr ...` as a subprocess and decode    *)
(* its output.                                                             *)
(*                                                                         *)
(* Text is a sequence of Unicode code points, a byte stream a sequence of  *)
(* numbers 0..255.                                                         *)
(***************************************************************************)
EXTENDS Integers, Sequences, FiniteSets, TLC

\* ------------------------------------------------------------------------
\* Text
\* ------------------------------------------------------------------------

\* The printable ASCII characters, code points 32..126 in order (the grave
\* accent, 96, is spelled out).
Ascii ==
  <<
    " ", "!", "\"", "#", "$", "%", "&", "'", "(", ")", "*", "+", ",", "-", ".", "/",
    "0", "1", "2", "3", "4", "5", "6", "7", "8", "9", ":", ";", "<", "=", ">", "?",
    "@", "A", "B", "C", "D", "E", "F", "G", "H", "I", "J", "K", "L", "M", "N", "O",
    "P", "Q", "R", "S", "T", "U", "V", "W", "X", "Y", "Z", "[", "\\", "]", "^", "_",
    "GRAVE", "a", "b", "c", "d", "e", "f", "g", "h", "i", "j", "k", "l", "m", "n", "o",
    "p", "q", "r", "s", "t", "u", "v", "w", "x", "y", "z", "{", "|", "}", "~"
  >>

\* Code point of a printable ASCII character.
Ord(c) == 31 + CHOOSE i \in 1..Len(Ascii) : Ascii[i] = c

\* The text (code points) of a sequence of characters.
Txt(cs) == [i \in 1..Len(cs) |-> Ord(cs[i])]

\* U+FFFD REPLACEMENT CHARACTER, what a lossy decoding puts in place of an
\* invalid byte sequence.
Replacement == 65533

IsCont(b) == b >= 128 /\ b <= 191

\* Number of bytes (1..4) of the well-formed UTF-8 sequence at bs[i], or 0
\* when the bytes at i do not start one.
Utf8Width(bs, i) ==
  LET n  == Len(bs)
      b0 == bs[i]
      b1 == IF i + 1 <= n THEN bs[i + 1] ELSE 0
      b2 == IF i + 2 <= n THEN bs[i + 2] ELSE 0
      b3 == IF i + 3 <= n THEN bs[i + 3] ELSE 0
      Second3 == CASE b0 = 224 -> b1 >= 160 /\ b1 <= 191
                   [] b0 = 237 -> b1 >= 128 /\ b1 <= 159
                   [] OTHER    -> IsCont(b1)
      Second4 == CASE b0 = 240 -> b1 >= 144 /\ b1 <= 191
                   [] b0 = 244 -> b1 >= 128 /\ b1 <= 143
                   [] OTHER    -> IsCont(b1)
  IN  CASE b0 < 128                -> 1
        [] b0 >= 194 /\ b0 <= 223  -> IF IsCont(b1) THEN 2 ELSE 0
        [] b0 >= 224 /\ b0 <= 239  -> IF Second3 /\ IsCont(b2) THEN 3 ELSE 0
        [] b0 >= 240 /\ b0 <= 244  ->
             IF Second4 /\ IsCont(b2) /\ IsCont(b3) THEN 4 ELSE 0
        [] OTHER                   -> 0

\* Length of the invalid run at bs[i] that one U+FFFD replaces: the longest
\* prefix of a well-formed sequence, at least one byte.
Utf8BadLen(bs, i) ==
  LET n  == Len(bs)
      b0 == bs[i]
      b1 == IF i + 1 <= n THEN bs[i + 1] ELSE 0
      b2 == IF i + 2 <= n THEN bs[i + 2] ELSE 0
      Second3 == CASE b0 = 224 -> b1 >= 160 /\ b1 <= 191
                   [] b0 = 237 -> b1 >= 128 /\ b1 <= 159
                   [] OTHER    -> IsCont(b1)
      Second4 == CASE b0 = 240 -> b1 >= 144 /\ b1 <= 191
                   [] b0 = 244 -> b1 >= 128 /\ b1 <= 143
                   [] OTHER    -> IsCont(b1)
  IN  CASE b0 >= 224 /\ b0 <= 239  -> IF Second3 THEN 2 ELSE 1
        [] b0 >= 240 /\ b0 <= 244  ->
             IF Second4 THEN (IF IsCont(b2) THEN 3 ELSE 2) ELSE 1
        [] OTHER                   -> 1

\* Code point of the well-formed sequence of w bytes at bs[i].
Utf8CodePoint(bs, i, w) ==
  CASE w = 1 -> bs[i]
    [] w = 2 -> (bs[i] % 32) * 64 + (bs[i + 1] % 64)
    [] w = 3 -> (bs[i] % 16) * 4096 + (bs[i + 1] % 64) * 64 + (bs[i + 2] % 64)
    [] w = 4 -> (bs[i] % 8) * 262144 + (bs[i + 1] % 64) * 4096
                  + (bs[i + 2] % 64) * 64 + (bs[i + 3] % 64)

\* The smallest index k >= i of s with P(s[k]), or Len(s) + 1.
FirstIndex(s, i, P(_)) ==
  LET ks == {k \in i..Len(s) : P(s[k])}
  IN  IF ks = {} THEN Len(s) + 1 ELSE CHOOSE k \in ks : \A m \in ks : k <= m

IsAscii(b) == b < 128
NotAscii(b) == b >= 128

RECURSIVE LossyFrom(_, _)
\* The text of bs from index i on: a run of ASCII bytes stands for itself,
\* a well-formed sequence for its code point, an invalid run for U+FFFD.
LossyFrom(bs, i) ==
  IF i > Len(bs) THEN << >>
  ELSE IF IsAscii(bs[i])
       THEN LET j == FirstIndex(bs, i, NotAscii)
            IN  SubSeq(bs, i, j - 1) \o LossyFrom(bs, j)
  ELSE LET w == Utf8Width(bs, i)
       IN  IF w > 0
           THEN <<Utf8CodePoint(bs, i, w)>> \o LossyFrom(bs, i + w)
           ELSE <<Replacement>> \o LossyFrom(bs, i + Utf8BadLen(bs, i))

\* String::from_utf8_lossy(bytes).to_string()
from_utf8_lossy(bs) == LossyFrom(bs, 1)

\* The UTF-8 bytes of an ASCII text.
AsBytes(cs) == Txt(cs)

\* ------------------------------------------------------------------------
\* serde_json::from_str: the JSON text of a document, read into a syntax
\* tree.  A step of the reader returns [ok, v, i, err]: the value read and
\* the index after it, or the error (serde_json's message, its back quotes
\* written as quotes and its line and column left out).
\* ------------------------------------------------------------------------

\* The element of a one-element set; Only({e(x) : x \in {d}}) is e(d), d
\* computed once.
Only(S) == CHOOSE x \in S : TRUE

Good(val, next) == [ok |-> TRUE, v |-> val, i |-> next, err |-> ""]
Bad(e) == [ok |-> FALSE, v |-> [t |-> "null"], i |-> 0, err |-> e]

IsWs(c) == c \in {32, 9, 10, 13}
IsDigit(c) == c >= 48 /\ c <= 57
IsHex(c) == IsDigit(c) \/ (c >= 65 /\ c <= 70) \/ (c >= 97 /\ c <= 102)
HexVal(c) == IF IsDigit(c) THEN c - 48 ELSE IF c >= 97 THEN c - 87 ELSE c - 55

NotWs(c) == ~IsWs(c)
\* Index of the first character at or after s[i] that is not white space.
SkipWs(s, i) == FirstIndex(s, i, NotWs)

\* Does the text w stand at s[i]?
StartsWith(s, i, w) ==
  /\ i + Len(w) - 1 <= Len(s)
  /\ \A k \in 1..Len(w) : s[i + k - 1] = w[k]

NotDigit(c) == ~IsDigit(c)
\* Index after the run of digits starting at s[i].
DigitsEnd(s, i) == FirstIndex(s, i, NotDigit)

\* The number whose sign ends before i0, integer part before i1, fraction
\* before f1, and exponent, digits from e0 on, before e1.
NumberAt(s, neg, i0, i1, f1, e0, e1) ==
  IF i0 > Len(s) THEN Bad("EOF while parsing a value")
  ELSE IF i1 = i0 THEN Bad("invalid number")
  ELSE IF s[i0] = 48 /\ i1 > i0 + 1 THEN Bad("invalid number")
  ELSE IF f1 = i1 + 1
       THEN (IF f1 > Len(s) THEN Bad("EOF while parsing a value")
             ELSE Bad("invalid number"))
  ELSE IF e0 > f1 /\ e1 = e0
       THEN (IF e0 > Len(s) THEN Bad("EOF while parsing a value")
             ELSE Bad("invalid number"))
  ELSE Good([t |-> "num", neg |-> neg,
             int |-> SubSeq(s, i0, i1 - 1),
             frac |-> SubSeq(s, i1 + 1, f1 - 1),
             exp |-> SubSeq(s, f1 + 1, e1 - 1),
             isInt |-> f1 = i1 /\ e1 = f1], e1)

\* Is s[i] the character c?
At(s, i, c) == i <= Len(s) /\ s[i] = c

\* A number: -? (0 | [1-9][0-9]*) (. [0-9]+)? ([eE] [+-]? [0-9]+)?
ParseNumber(s, i) ==
  Only({
    Only({
      Only({
        Only({
          Only({ NumberAt(s, i0 > i, i0, i1, f1, e0, e1) :
                 e1 \in {IF e0 > f1 THEN DigitsEnd(s, e0) ELSE f1} }) :
          e0 \in {IF At(s, f1, 101) \/ At(s, f1, 69)
                  THEN (IF At(s, f1 + 1, 43) \/ At(s, f1 + 1, 45)
                        THEN f1 + 2 ELSE f1 + 1)
                  ELSE f1} }) :
        f1 \in {IF At(s, i1, 46) THEN DigitsEnd(s, i1 + 1) ELSE i1} }) :
      i1 \in {DigitsEnd(s, i0)} }) :
    i0 \in {IF s[i] = 45 THEN i + 1 ELSE i} })

Hex4(s, i) == HexVal(s[i]) * 4096 + HexVal(s[i + 1]) * 256
                + HexVal(s[i + 2]) * 16 + HexVal(s[i + 3])
HasHex4(s, i) == i + 3 <= Len(s) /\ \A k \in 0..3 : IsHex(s[i + k])

\* The escape \uXXXX of the code unit n, s[i] being the character after it:
\* a leading surrogate wants a trailing one in a second escape.
UnicodeEscape(s, i, n) ==
  IF n >= 56320 /\ n <= 57343
  THEN Bad("lone leading surrogate in hex escape")
  ELSE IF n >= 55296 /\ n <= 56319
  THEN IF At(s, i, 92) /\ At(s, i + 1, 117) /\ HasHex4(s, i + 2)
       THEN Only({ IF m >= 56320 /\ m <= 57343
                   THEN Good(65536 + (n - 55296) * 1024 + (m - 56320), i + 6)
                   ELSE Bad("lone leading surrogate in hex escape") :
                   m \in {Hex4(s, i + 2)} })
       ELSE Bad("unexpected end of hex escape")
  ELSE Good(n, i)

\* The escape after a backslash, s[i] being the character after it.
ParseEscape(s, i) ==
  IF i > Len(s) THEN Bad("EOF while parsing a string")
  ELSE CASE s[i] = 34  -> Good(34, i + 1)
         [] s[i] = 92  -> Good(92, i + 1)
         [] s[i] = 47  -> Good(47, i + 1)
         [] s[i] = 98  -> Good(8, i + 1)
         [] s[i] = 102 -> Good(12, i + 1)
         [] s[i] = 110 -> Good(10, i + 1)
         [] s[i] = 114 -> Good(13, i + 1)
         [] s[i] = 116 -> Good(9, i + 1)
         [] s[i] = 117 ->
              IF i + 4 > Len(s) THEN Bad("EOF while parsing a string")
              ELSE IF ~HasHex4(s, i + 1) THEN Bad("invalid escape")
              ELSE UnicodeEscape(s, i + 5, Hex4(s, i + 1))
         [] OTHER -> Bad("invalid escape")

\* The characters that end a run of plain characters inside a string.
IsSpecial(c) == c = 34 \/ c = 92 \/ c < 32

RECURSIVE ParseStringBody(_, _, _)
\* The characters of a string up to its closing quote, s[i] being the next
\* character and acc the text read so far.
ParseStringBody(s, i, acc) ==
  Only({
    IF j > Len(s) THEN Bad("EOF while parsing a string")
    ELSE IF s[j] = 34
         THEN Good([t |-> "str", s |-> acc \o SubSeq(s, i, j - 1)], j + 1)
    ELSE IF s[j] = 92
         THEN Only({ IF e.ok
                     THEN ParseStringBody(s, e.i,
                            Append(acc \o SubSeq(s, i, j - 1), e.v))
                     ELSE e :
                     e \in {ParseEscape(s, j + 1)} })
    ELSE Bad("control character (\\u0000-\\u001F) found while parsing a string") :
    j \in {FirstIndex(s, i, IsSpecial)} })

RECURSIVE ParseValue(_, _)
RECURSIVE ParseItems(_, _, _)
RECURSIVE ParseMembers(_, _, _)

\* The elements of an array after "[" or after a comma (acc.comma tells
\* which), up to the closing bracket.
ParseItems(s, i, acc) ==
  Only({
    IF j > Len(s) THEN Bad("EOF while parsing a list")
    ELSE IF s[j] = 93
         THEN (IF acc.comma THEN Bad("trailing comma")
               ELSE Good([t |-> "arr", items |-> acc.items], j + 1))
    ELSE IF acc.items # << >> /\ ~acc.comma
         THEN (IF s[j] = 44
               THEN ParseItems(s, j + 1, [acc EXCEPT !.comma = TRUE])
               ELSE Bad("expected ',' or ']'"))
    ELSE Only({ IF r.ok
                THEN ParseItems(s, r.i, [items |-> Append(acc.items, r.v),
                                         comma |-> FALSE])
                ELSE r :
                r \in {ParseValue(s, j)} }) :
    j \in {SkipWs(s, i)} })

\* The member after the key k was read: a colon, then the value.
ParseMember(s, k, acc) ==
  IF ~k.ok THEN k
  ELSE Only({
    IF c > Len(s) THEN Bad("EOF while parsing an object")
    ELSE IF s[c] # 58 THEN Bad("expected ':'")
    ELSE Only({ IF r.ok
                THEN ParseMembers(s, r.i,
                       [items |-> Append(acc.items, [k |-> k.v.s, v |-> r.v]),
                        comma |-> FALSE])
                ELSE r :
                r \in {ParseValue(s, c + 1)} }) :
    c \in {SkipWs(s, k.i)} })

\* The members of an object after "{" or after a comma, up to the closing
\* brace.
ParseMembers(s, i, acc) ==
  Only({
    IF j > Len(s) THEN Bad("EOF while parsing an object")
    ELSE IF s[j] = 125
         THEN (IF acc.comma THEN Bad("trailing comma")
               ELSE Good([t |-> "obj", members |-> acc.items], j + 1))
    ELSE IF acc.items # << >> /\ ~acc.comma
         THEN (IF s[j] = 44
               THEN ParseMembers(s, j + 1, [acc EXCEPT !.comma = TRUE])
               ELSE Bad("expected ',' or '}'"))
    ELSE IF s[j] # 34 THEN Bad("key must be a string")
    ELSE Only({ ParseMember(s, k, acc) :
                k \in {ParseStringBody(s, j + 1, << >>)} }) :
    j \in {SkipWs(s, i)} })

\* The literal word (null, true, false) at s[j], standing for val.
ParseIdent(s, j, word, val) ==
  IF StartsWith(s, j, word) THEN Good(val, j + Len(word))
  ELSE IF j + Len(word) - 1 > Len(s) THEN Bad("EOF while parsing a value")
  ELSE Bad("expected ident")

W_null  == Txt(<<"n", "u", "l", "l">>)
W_true  == Txt(<<"t", "r", "u", "e">>)
W_false == Txt(<<"f", "a", "l", "s", "e">>)

\* One JSON value, leading white space skipped.
ParseValue(s, i) ==
  Only({
    IF j > Len(s) THEN Bad("EOF while parsing a value")
    ELSE CASE s[j] = 110 -> ParseIdent(s, j, W_null, [t |-> "null"])
           [] s[j] = 116 -> ParseIdent(s, j, W_true, [t |-> "bool", b |-> TRUE])
           [] s[j] = 102 -> ParseIdent(s, j, W_false, [t |-> "bool", b |-> FALSE])
           [] s[j] = 45 \/ IsDigit(s[j]) -> ParseNumber(s, j)
           [] s[j] = 34  -> ParseStringBody(s, j + 1, << >>)
           [] s[j] = 91  ->
                ParseItems(s, j + 1, [items |-> << >>, comma |-> FALSE])
           [] s[j] = 123 ->
                ParseMembers(s, j + 1, [items |-> << >>, comma |-> FALSE])
           [] OTHER -> Bad("expected value") :
    j \in {SkipWs(s, i)} })

\* A whole document: one value, then only white space.
ParseDocument(s) ==
  Only({ IF ~r.ok THEN r
         ELSE IF SkipWs(s, r.i) <= Len(s) THEN Bad("trailing characters")
         ELSE r :
         r \in {ParseValue(s, 1)} })

\* ------------------------------------------------------------------------
\* serde: a syntax tree read as a value of the type the caller asks for.
\* A decoder returns [ok, v, err] (i is unused).
\* ------------------------------------------------------------------------

None == [some |-> FALSE]
Some(x) == [some |-> TRUE, val |-> x]

\* a <= b for two decimal numerals without leading zeros.
NumeralLeq(a, b) ==
  \/ Len(a) < Len(b)
  \/ /\ Len(a) = Len(b)
     /\ \A k \in 1..Len(a) :
          (\A m \in 1..(k - 1) : a[m] = b[m]) => a[k] <= b[k]

I64Max == Txt(<<"9", "2", "2", "3", "3", "7", "2", "0", "3", "6", "8", "5", "4", "7", "7", "5", "8", "0", "7">>)
I64MinAbs == Txt(<<"9", "2", "2", "3", "3", "7", "2", "0", "3", "6", "8", "5", "4", "7", "7", "5", "8", "0", "8">>)
U64Max == Txt(<<"1", "8", "4", "4", "6", "7", "4", "4", "0", "7", "3", "7", "0", "9", "5", "5", "1", "6", "1", "5">>)

\* How serde_json classifies a number: "u64" and "i64" for the integers
\* that fit (a negative zero and an integer out of range are floats).
NumberClass(n) ==
  IF ~n.isInt THEN "f64"
  ELSE IF n.int = <<48>> THEN (IF n.neg THEN "f64" ELSE "u64")
  ELSE IF NumeralLeq(n.int, IF n.neg THEN I64MinAbs ELSE U64Max)
       THEN (IF n.neg THEN "i64" ELSE "u64")
  ELSE "f64"

\* The i64 of a number of class cls.
I64Of(v, cls) ==
  CASE cls = "u64" ->
         IF NumeralLeq(v.int, I64Max)
         THEN Good([neg |-> FALSE, digits |-> v.int], 0)
         ELSE Bad("invalid value")
    [] cls = "i64" -> Good([neg |-> TRUE, digits |-> v.int], 0)
    [] OTHER -> Bad("invalid type")

DecodeI64(v) ==
  IF v.t # "num" THEN Bad("invalid type") ELSE I64Of(v, NumberClass(v))

\* The float is kept as its numeral (sign, integer part, fraction,
\* exponent), not rounded.
DecodeF64(v) ==
  IF v.t # "num" THEN Bad("invalid type")
  ELSE Good([neg |-> v.neg, int |-> v.int, frac |-> v.frac, exp |-> v.exp], 0)

DecodeString(v) ==
  IF v.t # "str" THEN Bad("invalid type") ELSE Good(v.s, 0)

IsOption(ty) == ty \in {"Option<i64>", "Option<String>"}

\* Some(..) around what was decoded for an Option.
Wrap(r, ty) == IF r.ok /\ IsOption(ty) THEN Good(Some(r.v), 0) ELSE r

\* A value of the scalar type ty.
DecodeScalar(v, ty) ==
  IF IsOption(ty) /\ v.t = "null" THEN Good(None, 0)
  ELSE Wrap(CASE ty \in {"i64", "Option<i64>"}       -> DecodeI64(v)
              [] ty = "f64"                          -> DecodeF64(v)
              [] ty \in {"String", "Option<String>"} -> DecodeString(v),
            ty)

\* pub struct ProjectInfo
ProjectInfo ==
  << [name |-> "id",          key |-> Txt(<<"i", "d">>),          ty |-> "Option<i64>"],
     [name |-> "name",        key |-> Txt(<<"n", "a", "m", "e">>),        ty |-> "String"],
     [name |-> "description", key |-> Txt(<<"d", "e", "s", "c", "r", "i", "p", "t", "i", "o", "n">>), ty |-> "String"],
     [name |-> "status",      key |-> Txt(<<"s", "t", "a", "t", "u", "s">>),      ty |-> "String"],
     [name |-> "created_at",  key |-> Txt(<<"c", "r", "e", "a", "t", "e", "d", "_", "a", "t">>),  ty |-> "String"] >>

\* pub struct RenderStatus
RenderStatus ==
  << [name |-> "job_id",        key |-> Txt(<<"j", "o", "b", "_", "i", "d">>),        ty |-> "i64"],
     [name |-> "status",        key |-> Txt(<<"s", "t", "a", "t", "u", "s">>),        ty |-> "String"],
     [name |-> "progress",      key |-> Txt(<<"p", "r", "o", "g", "r", "e", "s", "s">>),      ty |-> "f64"],
     [name |-> "current_scene", key |-> Txt(<<"c", "u", "r", "r", "e", "n", "t", "_", "s", "c", "e", "n", "e">>), ty |-> "Option<String>"],
     [name |-> "error_message", key |-> Txt(<<"e", "r", "r", "o", "r", "_", "m", "e", "s", "s", "a", "g", "e">>), ty |-> "Option<String>"] >>

FieldNames(fields) == {fields[k].name : k \in 1..Len(fields)}
\* The index of the field with the key, 0 when there is none.
FieldOfKey(fields, key) ==
  Only({k \in 0..Len(fields) :
          IF k = 0 THEN \A m \in 1..Len(fields) : fields[m].key # key
          ELSE fields[k].key = key})

\* got with the field name set to val.
WithField(got, name, val) ==
  [n \in DOMAIN got \cup {name} |-> IF n = name THEN val ELSE got[n]]

RECURSIVE DecodeMap(_, _, _, _)
\* The members of an object read in order into the fields of a struct: got
\* maps the names of the fields read so far to their values.
DecodeMap(members, k, fields, got) ==
  IF k > Len(members)
  THEN IF \E f \in 1..Len(fields) :
            fields[f].name \notin DOMAIN got /\ ~IsOption(fields[f].ty)
       THEN Bad("missing field")
       ELSE Good([n \in FieldNames(fields) |->
                    IF n \in DOMAIN got THEN got[n] ELSE None], 0)
  ELSE Only({
    IF f = 0 THEN DecodeMap(members, k + 1, fields, got)
    ELSE IF fields[f].name \in DOMAIN got THEN Bad("duplicate field")
    ELSE Only({ IF ~r.ok THEN r
                ELSE DecodeMap(members, k + 1, fields,
                               WithField(got, fields[f].name, r.v)) :
                r \in {DecodeScalar(members[k].v, fields[f].ty)} }) :
    f \in {FieldOfKey(fields, members[k].k)} })

RECURSIVE DecodeSeq(_, _, _, _)
\* The elements of an array read in order into the fields of a struct.
DecodeSeq(items, k, fields, got) ==
  IF k > Len(fields)
  THEN IF Len(items) > Len(fields) THEN Bad("trailing characters")
       ELSE Good(got, 0)
  ELSE IF k > Len(items) THEN Bad("invalid length")
  ELSE Only({ IF ~r.ok THEN r
              ELSE DecodeSeq(items, k + 1, fields,
                             WithField(got, fields[k].name, r.v)) :
              r \in {DecodeScalar(items[k], fields[k].ty)} })

NoFields == [n \in {} |-> None]

\* #[derive(Deserialize)] of a struct: from an object or from an array.
DecodeStruct(v, fields) ==
  CASE v.t = "obj" -> DecodeMap(v.members, 1, fields, NoFields)
    [] v.t = "arr" -> DecodeSeq(v.items, 1, fields, NoFields)
    [] OTHER       -> Bad("invalid type")

RECURSIVE DecodeVec(_, _, _, _)
\* Vec<T> of the elements of an array, T the struct of the fields.
DecodeVec(items, k, fields, acc) ==
  IF k > Len(items) THEN Good(acc, 0)
  ELSE Only({ IF ~r.ok THEN r
              ELSE DecodeVec(items, k + 1, fields, Append(acc, r.v)) :
              r \in {DecodeStruct(items[k], fields)} })

\* The fields of the struct a type names.
FieldsOf(ty) == IF ty = "RenderStatus" THEN RenderStatus ELSE ProjectInfo

RECURSIVE ToValue(_)
\* serde_json::Value of a syntax tree: an object is a map, the last of two
\* members with one key standing.
ToValue(v) ==
  CASE v.t = "arr" ->
         [t |-> "arr", items |-> [k \in 1..Len(v.items) |-> ToValue(v.items[k])]]
    [] v.t = "obj" ->
         [t |-> "obj",
          map |-> [key \in {v.members[k].k : k \in 1..Len(v.members)} |->
                     ToValue(v.members[
                       Only({k \in 1..Len(v.members) :
                               /\ v.members[k].k = key
                               /\ \A m \in (k + 1)..Len(v.members) :
                                    v.members[m].k # key})].v)]]
    [] OTHER -> v

\* The syntax tree v of a document as a value of type ty.
Decode(ty, v) ==
  CASE ty = "Value" -> Good(ToValue(v), 0)
    [] ty = "Vec<ProjectInfo>" ->
         IF v.t = "arr" THEN DecodeVec(v.items, 1, ProjectInfo, << >>)
         ELSE Bad("invalid type")
    [] OTHER -> DecodeStruct(v, FieldsOf(ty))

\* serde_json::from_str::<T>(text), T one of "Vec<ProjectInfo>",
\* "ProjectInfo", "RenderStatus", "Value".
from_str(ty, text) ==
  Only({ IF ~d.ok THEN d ELSE Decode(ty, d.v) : d \in {ParseDocument(text)} })

\* Display of a serde_json error: the text of its message.
ErrorText(e) ==
  CASE e = "EOF while parsing a list" ->
         Txt(<<"E", "O", "F", " ", "w", "h", "i", "l", "e", " ", "p", "a", "r", "s", "i", "n", "g", " ", "a", " ", "l", "i", "s", "t">>)
    [] e = "EOF while parsing a string" ->
         Txt(<<"E", "O", "F", " ", "w", "h", "i", "l", "e", " ", "p", "a", "r", "s", "i", "n", "g", " ", "a", " ", "s", "t", "r", "i", "n", "g">>)
    [] e = "EOF while parsing a value" ->
         Txt(<<"E", "O", "F", " ", "w", "h", "i", "l", "e", " ", "p", "a", "r", "s", "i", "n", "g", " ", "a", " ", "v", "a", "l", "u", "e">>)
    [] e = "EOF while parsing an object" ->
         Txt(<<"E", "O", "F", " ", "w", "h", "i", "l", "e", " ", "p", "a", "r", "s", "i", "n", "g", " ", "a", "n", " ", "o", "b", "j", "e", "c", "t">>)
    [] e = "control character (\\u0000-\\u001F) found while parsing a string" ->
         Txt(<<"c", "o", "n", "t", "r", "o", "l", " ", "c", "h", "a", "r", "a", "c", "t", "e", "r", " ", "(", "\\", "u", "0", "0", "0", "0", "-", "\\", "u", "0", "0", "1", "F", ")", " ", "f", "o", "u", "n", "d", " ", "w", "h", "i", "l", "e", " ", "p", "a", "r", "s", "i", "n", "g", " ", "a", " ", "s", "t", "r", "i", "n", "g">>)
    [] e = "duplicate field" ->
         Txt(<<"d", "u", "p", "l", "i", "c", "a", "t", "e", " ", "f", "i", "e", "l", "d">>)
    [] e = "expected ',' or ']'" ->
         Txt(<<"e", "x", "p", "e", "c", "t", "e", "d", " ", "'", ",", "'", " ", "o", "r", " ", "'", "]", "'">>)
    [] e = "expected ',' or '}'" ->
         Txt(<<"e", "x", "p", "e", "c", "t", "e", "d", " ", "'", ",", "'", " ", "o", "r", " ", "'", "}", "'">>)
    [] e = "expected ':'" ->
         Txt(<<"e", "x", "p", "e", "c", "t", "e", "d", " ", "'", ":", "'">>)
    [] e = "expected ident" ->
         Txt(<<"e", "x", "p", "e", "c", "t", "e", "d", " ", "i", "d", "e", "n", "t">>)
    [] e = "expected value" ->
         Txt(<<"e", "x", "p", "e", "c", "t", "e", "d", " ", "v", "a", "l", "u", "e">>)
    [] e = "invalid escape" ->
         Txt(<<"i", "n", "v", "a", "l", "i", "d", " ", "e", "s", "c", "a", "p", "e">>)
    [] e = "invalid length" ->
         Txt(<<"i", "n", "v", "a", "l", "i", "d", " ", "l", "e", "n", "g", "t", "h">>)
    [] e = "invalid number" ->
         Txt(<<"i", "n", "v", "a", "l", "i", "d", " ", "n", "u", "m", "b", "e", "r">>)
    [] e = "invalid type" ->
         Txt(<<"i", "n", "v", "a", "l", "i", "d", " ", "t", "y", "p", "e">>)
    [] e = "invalid value" ->
         Txt(<<"i", "n", "v", "a", "l", "i", "d", " ", "v", "a", "l", "u", "e">>)
    [] e = "key must be a string" ->
         Txt(<<"k", "e", "y", " ", "m", "u", "s", "t", " ", "b", "e", " ", "a", " ", "s", "t", "r", "i", "n", "g">>)
    [] e = "lone leading surrogate in hex escape" ->
         Txt(<<"l", "o", "n", "e", " ", "l", "e", "a", "d", "i", "n", "g", " ", "s", "u", "r", "r", "o", "g", "a", "t", "e", " ", "i", "n", " ", "h", "e", "x", " ", "e", "s", "c", "a", "p", "e">>)
    [] e = "missing field" ->
         Txt(<<"m", "i", "s", "s", "i", "n", "g", " ", "f", "i", "e", "l", "d">>)
    [] e = "trailing characters" ->
         Txt(<<"t", "r", "a", "i", "l", "i", "n", "g", " ", "c", "h", "a", "r", "a", "c", "t", "e", "r", "s">>)
    [] e = "trailing comma" ->
         Txt(<<"t", "r", "a", "i", "l", "i", "n", "g", " ", "c", "o", "m", "m", "a">>)
    [] e = "unexpected end of hex escape" ->
         Txt(<<"u", "n", "e", "x", "p", "e", "c", "t", "e", "d", " ", "e", "n", "d", " ", "o", "f", " ", "h", "e", "x", " ", "e", "s", "c", "a", "p", "e">>)

\* ------------------------------------------------------------------------
\* State
\* ------------------------------------------------------------------------

VARIABLES
  calls,    \* per thread: the command it runs and how far it has got
  procs,    \* the child processes alive or not yet reaped, by pid
  history   \* the commands that have returned, oldest first (not bridge
            \* state: what the UI has seen)

vars == <<calls, procs, history>>

\* ------------------------------------------------------------------------
\* The bridge
\* ------------------------------------------------------------------------

Ok(x) == [ok |-> TRUE, v |-> x]
Err(e) == [ok |-> FALSE, e |-> e]

\* ExitStatus::success(): the process exited, with code zero.
success(status) == status.exited /\ status.code = 0

RECURSIVE Numeral(_)
\* The decimal digits of a natural number.
Numeral(n) ==
  IF n < 10 THEN <<48 + n>> ELSE Append(Numeral(n \div 10), 48 + (n % 10))

\* to_string that loses the sign.
to_string_abs(n) == IF n < 0 THEN Numeral(0 - n) ELSE Numeral(n)

\* i64::to_string()
to_string(n) == IF n < 0 THEN <<Ord("-")>> \o Numeral(0 - n) ELSE Numeral(n)

\* run_python_command that drops the description of a spawn error.
run_python_command_silent(out) ==
  IF out.spawned
  THEN LET stdout == from_utf8_lossy(out.stdout)
           stderr == from_utf8_lossy(out.stderr)
       IN  [success |-> success(out.status),
            output  |-> stdout,
            error   |-> IF stderr = << >> THEN None ELSE Some(stderr)]
  ELSE [success |-> FALSE, output |-> << >>, error |-> None]

\* run_python_command that reports standard error only for a failed child.
run_python_command_quiet(out) ==
  IF out.spawned
  THEN LET stdout == from_utf8_lossy(out.stdout)
           stderr == from_utf8_lossy(out.stderr)
       IN  [success |-> success(out.status),
            output  |-> stdout,
            error   |-> IF stderr = << >> \/ success(out.status)
                        THEN None ELSE Some(stderr)]
  ELSE [success |-> FALSE, output |-> << >>, error |-> Some(out.err)]

\* run_python_command that gives up once a spawn has failed in the session.
run_python_command_poisoned(out) ==
  IF \E k \in 1..Len(history) : ~history[k].out.spawned
  THEN [success |-> FALSE, output |-> << >>, error |-> None]
  ELSE IF out.spawned
  THEN LET stdout == from_utf8_lossy(out.stdout)
           stderr == from_utf8_lossy(out.stderr)
       IN  [success |-> success(out.status),
            output  |-> stdout,
            error   |-> IF stderr = << >> THEN None ELSE Some(stderr)]
  ELSE [success |-> FALSE, output |-> << >>, error |-> Some(out.err)]

\* run_python_command, after Command::output() returned out: either
\* [spawned |-> TRUE, status, stdout, stderr] or [spawned |-> FALSE, err].
run_python_command(out) ==
  IF out.spawned
  THEN LET stdout == from_utf8_lossy(out.stdout)
           stderr == from_utf8_lossy(out.stderr)
       IN  [success |-> success(out.status),
            output  |-> stdout,
            error   |-> IF stderr = << >> THEN None ELSE Some(stderr)]
  ELSE [success |-> FALSE, output |-> << >>, error |-> Some(out.err)]

\* unwrap_or_else that always takes the fallback.
unwrap_or_else_fallback(opt, fallback) == fallback

\* Option::unwrap_or_else(|| fallback)
unwrap_or_else(opt, fallback) == IF opt.some THEN opt.val ELSE fallback

\* A decoder that falls back to an empty value instead of the error.
parse_or_default(ty, output, prefix) ==
  LET r == from_str(ty, output)
  IN  IF r.ok THEN Ok(r.v) ELSE Ok(<< >>)

\* from_str::<T>(&result.output).map_err(|e| format!("<prefix>{}", e))
parse_or(ty, output, prefix) ==
  LET r == from_str(ty, output)
  IN  IF r.ok THEN Ok(r.v) ELSE Err(prefix \o ErrorText(r.err))

\* ---- the argument vectors handed to run_python_command ----

list_projects_args == 
  <<Txt(<<"l", "i", "s", "t">>),
     Txt(<<"-", "-", "j", "s", "o", "n">>)>>

create_project_args(name, description) ==
  <<Txt(<<"n", "e", "w">>),
     name,
     Txt(<<"-", "-", "d", "e", "s", "c", "r", "i", "p", "t", "i", "o", "n">>),
     description,
     Txt(<<"-", "-", "j", "s", "o", "n">>)>>

validate_spec_args(path) ==
  <<Txt(<<"v", "a", "l", "i", "d", "a", "t", "e">>),
     path>>

start_render_args(project_id) ==
  <<Txt(<<"r", "e", "n", "d", "e", "r">>),
     Txt(<<"-", "-", "p", "r", "o", "j", "e", "c", "t", "-", "i", "d">>),
     to_string(project_id),
     Txt(<<"-", "-", "j", "s", "o", "n">>)>>

get_render_status_args(job_id) ==
  <<Txt(<<"s", "t", "a", "t", "u", "s">>),
     Txt(<<"-", "-", "j", "o", "b", "-", "i", "d">>),
     to_string(job_id),
     Txt(<<"-", "-", "j", "s", "o", "n">>)>>

cancel_render_args(job_id) ==
  <<Txt(<<"c", "a", "n", "c", "e", "l">>),
     Txt(<<"-", "-", "j", "o", "b", "-", "i", "d">>),
     to_string(job_id)>>

generate_from_prompt_args(prompt) ==
  <<Txt(<<"a", "i">>),
     Txt(<<"g", "e", "n", "e", "r", "a", "t", "e">>),
     Txt(<<"-", "-", "p", "r", "o", "m", "p", "t">>),
     prompt,
     Txt(<<"-", "-", "j", "s", "o", "n">>)>>

check_dependencies_args ==
  <<Txt(<<"d", "o", "c", "t", "o", "r">>),
     Txt(<<"-", "-", "j", "s", "o", "n">>)>>

\* Command::new("python").arg("-m").arg("animatr").args(args)
CommandLine(args) ==
  <<Txt(<<"p", "y", "t", "h", "o", "n">>),
     Txt(<<"-", "m">>),
     Txt(<<"a", "n", "i", "m", "a", "t", "r">>)>> \o args

\* ---- what each command returns for a CommandResult ----

list_projects_result(result) ==
  IF result.success
  THEN parse_or("Vec<ProjectInfo>", result.output,
                Txt(<<"F", "a", "i", "l", "e", "d", " ", "t", "o", " ", "p", "a", "r", "s", "e", " ", "p", "r", "o", "j", "e", "c", "t", "s", ":", " ">>))
  ELSE Err(unwrap_or_else(result.error, Txt(<<"U", "n", "k", "n", "o", "w", "n", " ", "e", "r", "r", "o", "r">>)))

create_project_result(result) ==
  IF result.success
  THEN parse_or("ProjectInfo", result.output,
                Txt(<<"F", "a", "i", "l", "e", "d", " ", "t", "o", " ", "p", "a", "r", "s", "e", " ", "p", "r", "o", "j", "e", "c", "t", ":", " ">>))
  ELSE Err(unwrap_or_else(result.error,
                          Txt(<<"F", "a", "i", "l", "e", "d", " ", "t", "o", " ", "c", "r", "e", "a", "t", "e", " ", "p", "r", "o", "j", "e", "c", "t">>)))

\* validate_spec that reports a failed child as an error, as the decoding
\* commands do.
validate_spec_result_strict(result) ==
  IF result.success THEN Ok(TRUE)
  ELSE Err(unwrap_or_else(result.error, Txt(<<"U", "n", "k", "n", "o", "w", "n", " ", "e", "r", "r", "o", "r">>)))

validate_spec_result(result) == Ok(result.success)

start_render_result(result) ==
  IF result.success
  THEN parse_or("RenderStatus", result.output,
                Txt(<<"F", "a", "i", "l", "e", "d", " ", "t", "o", " ", "p", "a", "r", "s", "e", " ", "r", "e", "n", "d", "e", "r", " ", "s", "t", "a", "t", "u", "s", ":", " ">>))
  ELSE Err(unwrap_or_else(result.error,
                          Txt(<<"F", "a", "i", "l", "e", "d", " ", "t", "o", " ", "s", "t", "a", "r", "t", " ", "r", "e", "n", "d", "e", "r">>)))

get_render_status_result(result) ==
  IF result.success
  THEN parse_or("RenderStatus", result.output,
                Txt(<<"F", "a", "i", "l", "e", "d", " ", "t", "o", " ", "p", "a", "r", "s", "e", " ", "s", "t", "a", "t", "u", "s", ":", " ">>))
  ELSE Err(unwrap_or_else(result.error,
                          Txt(<<"F", "a", "i", "l", "e", "d", " ", "t", "o", " ", "g", "e", "t", " ", "s", "t", "a", "t", "u", "s">>)))

cancel_render_result(result) == Ok(result.success)

generate_from_prompt_result(result) ==
  IF result.success
  THEN Ok(result.output)
  ELSE Err(unwrap_or_else(result.error, Txt(<<"F", "a", "i", "l", "e", "d", " ", "t", "o", " ", "g", "e", "n", "e", "r", "a", "t", "e">>)))

K_python  == Txt(<<"p", "y", "t", "h", "o", "n">>)
K_moho    == Txt(<<"m", "o", "h", "o">>)
K_blender == Txt(<<"b", "l", "e", "n", "d", "e", "r">>)
K_ffmpeg  == Txt(<<"f", "f", "m", "p", "e", "g">>)
K_error   == Txt(<<"e", "r", "r", "o", "r">>)

JsonBool(b) == [t |-> "bool", b |-> b]
\* Option<String> as a serde_json::Value
JsonOption(opt) == IF opt.some THEN [t |-> "str", s |-> opt.val] ELSE [t |-> "null"]

\* The failure payload with every dependency reported missing.
PartialInfoAllFalse(error) ==
  [t |-> "obj",
   map |-> [k \in {K_python, K_moho, K_blender, K_ffmpeg, K_error} |->
              IF k = K_error THEN JsonOption(error) ELSE JsonBool(FALSE)]]

\* The json!({...}) of the failure branch of check_dependencies.
PartialInfo(error) ==
  [t |-> "obj",
   map |-> [k \in {K_python, K_moho, K_blender, K_ffmpeg, K_error} |->
              CASE k = K_python  -> JsonBool(TRUE)
                [] k = K_moho    -> JsonBool(FALSE)
                [] k = K_blender -> JsonBool(FALSE)
                [] k = K_ffmpeg  -> JsonBool(FALSE)
                [] k = K_error   -> JsonOption(error)]]

check_dependencies_result(result) ==
  IF result.success
  THEN parse_or("Value", result.output,
                Txt(<<"F", "a", "i", "l", "e", "d", " ", "t", "o", " ", "p", "a", "r", "s", "e", " ", "d", "e", "p", "e", "n", "d", "e", "n", "c", "i", "e", "s", ":", " ">>))
  ELSE Ok(PartialInfo(result.error))

\* The value a command returns, by the name of the command.
ResultOf(op, result) ==
  CASE op = "list_projects"        -> list_projects_result(result)
    [] op = "create_project"       -> create_project_result(result)
    [] op = "validate_spec"        -> validate_spec_result(result)
    [] op = "start_render"         -> start_render_result(result)
    [] op = "get_render_status"    -> get_render_status_result(result)
    [] op = "cancel_render"        -> cancel_render_result(result)
    [] op = "generate_from_prompt" -> generate_from_prompt_result(result)
    [] op = "check_dependencies"   -> check_dependencies_result(result)

\* ------------------------------------------------------------------------
\* The inputs: parameters of the commands and what the external tool does
\* ------------------------------------------------------------------------

Names        == {Txt(<<"D", "e", "m", "o">>), Txt(<<"-", "-", "j", "s", "o", "n">>)}
Descriptions == {<< >>, Txt(<<"a", " ", "\"", "b", "\"">>)}
Paths        == {Txt(<<"s", "p", "e", "c", ".", "y", "a", "m", "l">>), Txt(<<"m", "y", " ", "s", "p", "e", "c", ".", "y", "a", "m", "l">>)}
Prompts      == {<< >>, Txt(<<"a", " ", "c", "a", "t", ";", " ", "r", "m", " ", "-", "r", "f", " ", "/">>)}
Ids          == {0 - 120, 0 - 7, 0, 7, 10, 1205}

OutEmpty == << >>
OutGarbage == AsBytes(<<
    "o", "o", "p", "s" >>)
OutNoProjects == AsBytes(<<
    "[", "]" >>)
OutProjects == AsBytes(<<
    "[", "{", "\"", "i", "d", "\"", ":", "1", ",", "\"", "n", "a", "m", "e",
    "\"", ":", "\"", "A", "\"", ",", "\"", "d", "e", "s", "c", "r", "i", "p",
    "t", "i", "o", "n", "\"", ":", "\"", "\"", ",", "\"", "s", "t", "a", "t",
    "u", "s", "\"", ":", "\"", "n", "e", "w", "\"", ",", "\"", "c", "r", "e",
    "a", "t", "e", "d", "_", "a", "t", "\"", ":", "\"", "t", "\"", "}", "]" >>)
OutProject == AsBytes(<<
    "{", "\"", "i", "d", "\"", ":", "n", "u", "l", "l", ",", "\"", "n", "a",
    "m", "e", "\"", ":", "\"", "A", "\"", ",", "\"", "d", "e", "s", "c", "r",
    "i", "p", "t", "i", "o", "n", "\"", ":", "\"", "d", "\"", ",", "\"", "s",
    "t", "a", "t", "u", "s", "\"", ":", "\"", "n", "e", "w", "\"", ",", "\"",
    "c", "r", "e", "a", "t", "e", "d", "_", "a", "t", "\"", ":", "\"", "t",
    "\"", "}" >>)
OutStatus == AsBytes(<<
    "{", "\"", "j", "o", "b", "_", "i", "d", "\"", ":", "7", ",", "\"", "s",
    "t", "a", "t", "u", "s", "\"", ":", "\"", "r", "u", "n", "n", "i", "n",
    "g", "\"", ",", "\"", "p", "r", "o", "g", "r", "e", "s", "s", "\"", ":",
    "0", ".", "4", "2", ",", "\"", "c", "u", "r", "r", "e", "n", "t", "_",
    "s", "c", "e", "n", "e", "\"", ":", "\"", "s", "c", "e", "n", "e", "3",
    "\"", ",", "\"", "e", "r", "r", "o", "r", "_", "m", "e", "s", "s", "a",
    "g", "e", "\"", ":", "n", "u", "l", "l", "}" >>)
OutDeps == AsBytes(<<
    "{", "\"", "p", "y", "t", "h", "o", "n", "\"", ":", "t", "r", "u", "e",
    ",", "\"", "m", "o", "h", "o", "\"", ":", "f", "a", "l", "s", "e", ",",
    "\"", "b", "l", "e", "n", "d", "e", "r", "\"", ":", "f", "a", "l", "s",
    "e", ",", "\"", "f", "f", "m", "p", "e", "g", "\"", ":", "t", "r", "u",
    "e", "}" >>)
OutTruncated == AsBytes(<<
    "{", "\"", "j", "o", "b", "_", "i", "d", "\"", ":", "7", "," >>)
\* "e-acute" between quotes in Latin-1: not UTF-8.
OutLatin1 == <<34, 233, 34>>

Stdouts == {OutEmpty, OutGarbage, OutNoProjects, OutProjects, OutProject,
            OutStatus, OutDeps, OutTruncated, OutLatin1}

ErrBoom == AsBytes(<<
    "b", "o", "o", "m" >>)
Stderrs == {<< >>, ErrBoom, <<255>>}

Exit(code) == [exited |-> TRUE, code |-> code]
Killed(signal) == [exited |-> FALSE, code |-> signal]
Statuses == {Exit(0), Exit(1), Killed(9)}

\* io::Error::to_string() of a spawn that failed
NotFound == Txt(<<"N", "o", " ", "s", "u", "c", "h", " ", "f", "i", "l", "e", " ", "o", "r", " ", "d", "i", "r", "e", "c", "t", "o", "r", "y", " ", "(", "o", "s", " ", "e", "r", "r", "o", "r", " ", "2", ")">>)
PermissionDenied == Txt(<<"P", "e", "r", "m", "i", "s", "s", "i", "o", "n", " ", "d", "e", "n", "i", "e", "d", " ", "(", "o", "s", " ", "e", "r", "r", "o", "r", " ", "1", "3", ")">>)
SpawnErrors == {NotFound, PermissionDenied}

\* ------------------------------------------------------------------------
\* The state machine.  Each thread of the async runtime runs one command at
\* a time: it encodes the arguments, Command::output() spawns the child and
\* blocks until the child has exited, and the command returns.
\* ------------------------------------------------------------------------

\* Threads of the runtime that run commands concurrently.
NThreads == 2
\* Commands of one session whose outcomes the history keeps.
MaxCalls == 2

Threads == 1..NThreads
Pids == 1..NThreads

NoParams == [none |-> TRUE]
NoOutput == [spawned |-> FALSE, err |-> << >>]
NoResult == [success |-> FALSE, output |-> << >>, error |-> None]

\* The record of a command: pc, where the thread is in it; op, params and
\* args, the command, its parameters and the arguments it encoded; child,
\* the pid of the child it waits for (0: none); spawns, the spawn attempts
\* it made; out, result and ret, what Command::output() returned, the
\* CommandResult built from it and the value the command returned.
Fresh(op, params, args) ==
  [pc |-> "run", op |-> op, params |-> params, args |-> args,
   child |-> 0, spawns |-> 0, out |-> NoOutput, result |-> NoResult,
   ret |-> Ok(FALSE)]

Idle == [Fresh("", NoParams, << >>) EXCEPT !.pc = "idle"]

Init ==
  /\ calls = [t \in Threads |-> Idle]
  /\ procs = [p \in {} |-> 0]
  /\ history = << >>

\* A thread takes up a command: the body of the command down to its
\* run_python_command(&[...]) call.
Call(t, op, params, args) ==
  /\ calls[t].pc \in {"idle", "done"}
  /\ calls' = [calls EXCEPT ![t] = Fresh(op, params, args)]
  /\ UNCHANGED <<procs, history>>

list_projects(t) ==
  Call(t, "list_projects", NoParams, list_projects_args)

create_project(t, name, description) ==
  Call(t, "create_project", [name |-> name, description |-> description],
       create_project_args(name, description))

validate_spec(t, path) ==
  Call(t, "validate_spec", [path |-> path], validate_spec_args(path))

start_render(t, project_id) ==
  Call(t, "start_render", [project_id |-> project_id],
       start_render_args(project_id))

get_render_status(t, job_id) ==
  Call(t, "get_render_status", [job_id |-> job_id],
       get_render_status_args(job_id))

cancel_render(t, job_id) ==
  Call(t, "cancel_render", [job_id |-> job_id], cancel_render_args(job_id))

generate_from_prompt(t, prompt) ==
  Call(t, "generate_from_prompt", [prompt |-> prompt],
       generate_from_prompt_args(prompt))

check_dependencies(t) ==
  Call(t, "check_dependencies", NoParams, check_dependencies_args)

\* Command::output(): the child is spawned with the command line; the
\* thread blocks until it exits.
SpawnOk(t) ==
  /\ calls[t].pc = "run"
  /\ \E p \in Pids \ DOMAIN procs :
       /\ \A q \in Pids \ DOMAIN procs : p <= q
       /\ procs' = [q \in DOMAIN procs \cup {p} |->
                      IF q = p
                      THEN [argv |-> CommandLine(calls[t].args),
                            state |-> "running", status |-> Exit(0),
                            stdout |-> << >>, stderr |-> << >>]
                      ELSE procs[q]]
       /\ calls' = [calls EXCEPT ![t].pc = "wait", ![t].child = p,
                                 ![t].spawns = @ + 1]
  /\ UNCHANGED history

\* A failed spawn that is tried once more before it is reported.
SpawnErrRetry(t, e) ==
  /\ calls[t].pc = "run"
  /\ calls' = [calls EXCEPT ![t].pc = IF calls[t].spawns = 0 THEN "run" ELSE "wait",
                            ![t].child = 0,
                            ![t].spawns = @ + 1,
                            ![t].out = [spawned |-> FALSE, err |-> e]]
  /\ UNCHANGED <<procs, history>>

\* Command::output(): the spawn fails with the io::Error e.
SpawnErr(t, e) ==
  /\ calls[t].pc = "run"
  /\ calls' = [calls EXCEPT ![t].pc = "wait", ![t].child = 0,
                            ![t].spawns = @ + 1,
                            ![t].out = [spawned |-> FALSE, err |-> e]]
  /\ UNCHANGED <<procs, history>>

\* The external tool: child p exits with a status, having written stdout
\* and stderr.
ChildExit(p, status, stdout, stderr) ==
  /\ p \in DOMAIN procs
  /\ procs[p].state = "running"
  /\ procs' = [procs EXCEPT ![p].state = "exited", ![p].status = status,
                            ![p].stdout = stdout, ![p].stderr = stderr]
  /\ UNCHANGED <<calls, history>>

\* One buffer for every thread: the output of the oldest child.
ChildOfOldest(t) ==
  CHOOSE p \in DOMAIN procs : \A q \in DOMAIN procs : p <= q

\* The child whose output Command::output() hands back to thread t.
ChildOf(t) == calls[t].child

\* What Command::output() returns to thread t.
OutputOf(t) ==
  IF calls[t].child = 0 THEN calls[t].out
  ELSE [spawned |-> TRUE, status |-> procs[ChildOf(t)].status,
        stdout |-> procs[ChildOf(t)].stdout,
        stderr |-> procs[ChildOf(t)].stderr]

\* Command::output() returns (the child exited and is reaped, or the spawn
\* had failed); run_python_command builds the CommandResult and the command
\* returns its value.  keep: the history records the call.
Return(t, keep) ==
  /\ calls[t].pc = "wait"
  /\ calls[t].child # 0 => procs[calls[t].child].state = "exited"
  /\ LET out == OutputOf(t)
         result == run_python_command(out)
         ret == ResultOf(calls[t].op, result)
     IN  /\ calls' = [calls EXCEPT ![t].pc = "done", ![t].out = out,
                                   ![t].result = result, ![t].ret = ret]
         /\ history' = IF keep
                       THEN Append(history,
                                   [op |-> calls[t].op,
                                    params |-> calls[t].params,
                                    out |-> out, ret |-> ret])
                       ELSE history
  /\ procs' = [q \in DOMAIN procs \ {calls[t].child} |-> procs[q]]

\* ---- one command at a time, every input ----

\* The thread that runs the commands when they run one at a time.
Main == CHOOSE t \in Threads : \A u \in Threads : t <= u

Next ==
  \/ list_projects(Main)
  \/ \E n \in Names, d \in Descriptions : create_project(Main, n, d)
  \/ \E p \in Paths : validate_spec(Main, p)
  \/ \E id \in Ids : start_render(Main, id)
  \/ \E id \in Ids : get_render_status(Main, id)
  \/ \E id \in Ids : cancel_render(Main, id)
  \/ \E p \in Prompts : generate_from_prompt(Main, p)
  \/ check_dependencies(Main)
  \/ SpawnOk(Main)
  \/ \E e \in SpawnErrors : SpawnErr(Main, e)
  \/ \E p \in Pids, st \in Statuses, so \in Stdouts, se \in Stderrs :
       ChildExit(p, st, so, se)
  \/ Return(Main, FALSE)

Spec == Init /\ [][Next]_vars

\* ---- status polls of different jobs on concurrent threads ----

JobIds == 1..NThreads
\* What a poll's child can do: print a status, print a cut-off one, fail
\* with a message.
PollOutcomes ==
  { [status |-> Exit(0), stdout |-> OutStatus, stderr |-> << >>],
    [status |-> Exit(0), stdout |-> OutTruncated, stderr |-> << >>],
    [status |-> Exit(1), stdout |-> OutEmpty, stderr |-> ErrBoom] }

\* No other thread is in the middle of polling the job.
FreeJob(t, id) ==
  \A u \in Threads \ {t} :
    IF calls[u].pc \in {"run", "wait"} THEN calls[u].params.job_id # id
    ELSE TRUE

NextConcurrent ==
  \/ \E t \in Threads, id \in JobIds :
       FreeJob(t, id) /\ get_render_status(t, id)
  \/ \E t \in Threads : SpawnOk(t)
  \/ \E t \in Threads : SpawnErr(t, NotFound)
  \/ \E p \in Pids, o \in PollOutcomes :
       ChildExit(p, o.status, o.stdout, o.stderr)
  \/ \E t \in Threads : Return(t, FALSE)

SpecConcurrent == Init /\ [][NextConcurrent]_vars

\* ---- a session of MaxCalls commands, one after the other ----

MoreCalls == Len(history) < MaxCalls

NextSession ==
  \/ MoreCalls /\ list_projects(Main)
  \/ MoreCalls /\ create_project(Main, Txt(<<"D", "e", "m", "o">>), << >>)
  \/ MoreCalls /\ validate_spec(Main, Txt(<<"s", ".", "y", "m", "l">>))
  \/ MoreCalls /\ start_render(Main, 7)
  \/ MoreCalls /\ get_render_status(Main, 7)
  \/ MoreCalls /\ cancel_render(Main, 7)
  \/ MoreCalls /\ generate_from_prompt(Main, Txt(<<"a", " ", "c", "a", "t">>))
  \/ MoreCalls /\ check_dependencies(Main)
  \/ SpawnOk(Main)
  \/ SpawnErr(Main, NotFound)
  \/ \E p \in Pids :
       \/ ChildExit(p, Exit(0), OutStatus, << >>)
       \/ ChildExit(p, Exit(0), OutEmpty, ErrBoom)
       \/ ChildExit(p, Exit(1), OutStatus, ErrBoom)
       \/ ChildExit(p, Exit(1), OutEmpty, << >>)
  \/ Return(Main, TRUE)

SpecSession == Init /\ [][NextSession]_vars

\* ------------------------------------------------------------------------
\* Properties
\* ------------------------------------------------------------------------

Done(t) == calls[t].pc = "done"
\* The child of the call was spawned and exited with status zero / was
\* spawned and did not.
ZeroExit(c) == c.out.spawned /\ success(c.out.status)
NonZeroExit(c) == c.out.spawned /\ ~success(c.out.status)
SpawnFailed(c) == ~c.out.spawned

HasPrefix(text, prefix) ==
  Len(text) >= Len(prefix) /\ SubSeq(text, 1, Len(prefix)) = prefix

\* The commands that decode standard output, and the type each expects.
DecodingOps == {"list_projects", "create_project", "start_render",
                "get_render_status", "check_dependencies"}
JsonOps == DecodingOps \cup {"generate_from_prompt"}
ExpectedType(op) ==
  CASE op = "list_projects"        -> "Vec<ProjectInfo>"
    [] op = "create_project"       -> "ProjectInfo"
    [] op = "start_render"         -> "RenderStatus"
    [] op = "get_render_status"    -> "RenderStatus"
    [] OTHER                       -> "Value"

\* The standard output of the call is JSON of the shape its command expects.
ValidPayload(c) == from_str(ExpectedType(c.op), from_utf8_lossy(c.out.stdout)).ok

FailedToParse == Txt(<<"F", "a", "i", "l", "e", "d", " ", "t", "o", " ", "p", "a", "r", "s", "e", " ">>)

Flag(c, key) == c.ret.v.map[key].b
\* The error the CommandResult of a failed call carries, as JSON: the text
\* of standard error, the description of the spawn error, or null when the
\* child failed without writing to standard error.
FailureText(c) ==
  IF SpawnFailed(c) THEN [t |-> "str", s |-> c.out.err]
  ELSE IF from_utf8_lossy(c.out.stderr) = << >> THEN [t |-> "null"]
  ELSE [t |-> "str", s |-> from_utf8_lossy(c.out.stderr)]

FailingOps == {"list_projects", "create_project", "start_render",
               "get_render_status", "generate_from_prompt"}
Fallback(op) ==
  CASE op = "list_projects"        -> Txt(<<"U", "n", "k", "n", "o", "w", "n", " ", "e", "r", "r", "o", "r">>)
    [] op = "create_project"       -> Txt(<<"F", "a", "i", "l", "e", "d", " ", "t", "o", " ", "c", "r", "e", "a", "t", "e", " ", "p", "r", "o", "j", "e", "c", "t">>)
    [] op = "start_render"         -> Txt(<<"F", "a", "i", "l", "e", "d", " ", "t", "o", " ", "s", "t", "a", "r", "t", " ", "r", "e", "n", "d", "e", "r">>)
    [] op = "get_render_status"    -> Txt(<<"F", "a", "i", "l", "e", "d", " ", "t", "o", " ", "g", "e", "t", " ", "s", "t", "a", "t", "u", "s">>)
    [] op = "generate_from_prompt" -> Txt(<<"F", "a", "i", "l", "e", "d", " ", "t", "o", " ", "g", "e", "n", "e", "r", "a", "t", "e">>)

\* C3: for list_projects, create_project, start_render, get_render_status
\* and generate_from_prompt, a child that was spawned and exited non-zero
\* makes the command return Err of the text of standard error when that is
\* not empty and of the command's fallback string otherwise, whatever
\* standard output holds.
C3_NonZeroExit ==
  \A t \in Threads :
    (Done(t) /\ calls[t].op \in FailingOps /\ NonZeroExit(calls[t])) =>
      calls[t].ret =
        Err(IF from_utf8_lossy(calls[t].out.stderr) # << >>
            THEN from_utf8_lossy(calls[t].out.stderr)
            ELSE Fallback(calls[t].op))

C3_Witness ==
  /\ Done(Main) /\ calls[Main].op = "start_render"
  /\ NonZeroExit(calls[Main])
  /\ calls[Main].out.stdout = OutStatus /\ calls[Main].out.stderr = << >>
  /\ calls[Main].ret = Err(Fallback("start_render"))

\* C4, as stated: for every command, a spawn failure returns Err of the
\* description of the spawn error.
C4_AllErr ==
  \A t \in Threads :
    (Done(t) /\ SpawnFailed(calls[t])) => calls[t].ret = Err(calls[t].out.err)

\* C4, amended: on a spawn failure list_projects, create_project,
\* start_render, get_render_status and generate_from_prompt return Err of the
\* description of the spawn error; validate_spec and cancel_render return
\* Ok(false); check_dependencies returns Ok of its partial payload, the
\* description in its error field.
C4_SpawnError ==
  \A t \in Threads :
    (Done(t) /\ SpawnFailed(calls[t])) =>
      CASE calls[t].op \in FailingOps ->
             calls[t].ret = Err(calls[t].out.err)
        [] calls[t].op \in {"validate_spec", "cancel_render"} ->
             calls[t].ret = Ok(FALSE)
        [] calls[t].op = "check_dependencies" ->
             /\ calls[t].ret.ok
             /\ calls[t].ret.v.map[K_error] = [t |-> "str", s |-> calls[t].out.err]

C4_Witness ==
  /\ Done(Main) /\ calls[Main].op = "create_project"
  /\ SpawnFailed(calls[Main]) /\ calls[Main].out.err = PermissionDenied
  /\ calls[Main].ret = Err(PermissionDenied)

\* C5: validate_spec and cancel_render return Ok(b), b true exactly when the
\* child was spawned and exited with status zero, whatever standard output
\* and standard error hold; never Err.
C5_SuccessFlag ==
  \A t \in Threads :
    (Done(t) /\ calls[t].op \in {"validate_spec", "cancel_render"}) =>
      calls[t].ret = Ok(calls[t].out.spawned
                          /\ calls[t].out.status.exited
                          /\ calls[t].out.status.code = 0)

C5_Witness ==
  /\ Done(Main) /\ calls[Main].op = "validate_spec"
  /\ ZeroExit(calls[Main])
  /\ calls[Main].out.stdout = OutGarbage /\ calls[Main].out.stderr = ErrBoom
  /\ calls[Main].ret = Ok(TRUE)

RECURSIVE DecimalValue(_)
\* The number a sequence of decimal digits stands for.
DecimalValue(ds) ==
  IF ds = << >> THEN 0
  ELSE 10 * DecimalValue(SubSeq(ds, 1, Len(ds) - 1)) + (ds[Len(ds)] - 48)

\* d is the canonical base-10 text of the integer n: a minus sign exactly
\* when n is negative, then the digits of its magnitude without leading
\* zeros.
CanonicalDecimal(d, n) ==
  LET neg == d # << >> /\ d[1] = Ord("-")
      ds  == IF neg THEN Tail(d) ELSE d
  IN  /\ ds # << >>
      /\ \A k \in 1..Len(ds) : IsDigit(ds[k])
      /\ Len(ds) > 1 => ds[1] # Ord("0")
      /\ neg <=> n < 0
      /\ DecimalValue(ds) = (IF n < 0 THEN 0 - n ELSE n)

\* The argument vector of the table: args has the words of shape, a text
\* parameter where shape holds "<text>" (texts gives them in order) and the
\* canonical decimal of id where it holds "<id>".
Flags(ws) == [k \in 1..Len(ws) |-> Txt(ws[k])]
W_list     == Flags(<< <<"l", "i", "s", "t">>, <<"-", "-", "j", "s", "o", "n">> >>)
W_new      == Txt(<<"n", "e", "w">>)
W_desc     == Txt(<<"-", "-", "d", "e", "s", "c", "r", "i", "p", "t", "i", "o", "n">>)
W_json     == Txt(<<"-", "-", "j", "s", "o", "n">>)
W_validate == Txt(<<"v", "a", "l", "i", "d", "a", "t", "e">>)
W_render   == Txt(<<"r", "e", "n", "d", "e", "r">>)
W_project  == Txt(<<"-", "-", "p", "r", "o", "j", "e", "c", "t", "-", "i", "d">>)
W_status   == Txt(<<"s", "t", "a", "t", "u", "s">>)
W_job      == Txt(<<"-", "-", "j", "o", "b", "-", "i", "d">>)
W_cancel   == Txt(<<"c", "a", "n", "c", "e", "l">>)
W_ai       == Txt(<<"a", "i">>)
W_generate == Txt(<<"g", "e", "n", "e", "r", "a", "t", "e">>)
W_prompt   == Txt(<<"-", "-", "p", "r", "o", "m", "p", "t">>)
W_doctor   == Txt(<<"d", "o", "c", "t", "o", "r">>)

\* args is the vector  a b <id> [--json]  for the integer id.
IdVector(args, a, b, id, json) ==
  /\ Len(args) = (IF json THEN 4 ELSE 3)
  /\ args[1] = a /\ args[2] = b
  /\ CanonicalDecimal(args[3], id)
  /\ json => args[4] = W_json

MatchesTable(c) ==
  CASE c.op = "list_projects" -> c.args = W_list
    [] c.op = "create_project" ->
         c.args = <<W_new, c.params.name, W_desc, c.params.description, W_json>>
    [] c.op = "validate_spec" -> c.args = <<W_validate, c.params.path>>
    [] c.op = "start_render" ->
         IdVector(c.args, W_render, W_project, c.params.project_id, TRUE)
    [] c.op = "get_render_status" ->
         IdVector(c.args, W_status, W_job, c.params.job_id, TRUE)
    [] c.op = "cancel_render" ->
         IdVector(c.args, W_cancel, W_job, c.params.job_id, FALSE)
    [] c.op = "generate_from_prompt" ->
         c.args = <<W_ai, W_generate, W_prompt, c.params.prompt, W_json>>
    [] c.op = "check_dependencies" -> c.args = <<W_doctor, W_json>>

\* C6: each command hands run_python_command the argument vector of the
\* table, each text parameter one element unchanged and each id its
\* canonical base-10 text, and the child is spawned as
\* python -m animatr followed by that vector.
C6_ArgumentVectors ==
  \A t \in Threads :
    calls[t].pc # "idle" =>
      /\ MatchesTable(calls[t])
      /\ (calls[t].pc = "wait" /\ calls[t].child # 0) =>
           procs[calls[t].child].argv =
             <<Txt(<<"p", "y", "t", "h", "o", "n">>), Txt(<<"-", "m">>), Txt(<<"a", "n", "i", "m", "a", "t", "r">>)>>
               \o calls[t].args

C6_Witness ==
  /\ calls[Main].pc = "wait" /\ calls[Main].child # 0
  /\ calls[Main].op = "start_render" /\ calls[Main].params.project_id = 0 - 120
  /\ Len(procs[calls[Main].child].argv) = 7
  /\ procs[calls[Main].child].argv[6] = Txt(<<"-", "1", "2", "0">>)

\* C7, as stated: the error of every CommandResult is None exactly when
\* standard error was empty, a failed spawn (no standard error at all)
\* included.
C7_NoneIffEmpty ==
  \A t \in Threads :
    Done(t) =>
      (calls[t].result.error = None
         <=> (IF calls[t].out.spawned
              THEN calls[t].out.stderr = << >>
              ELSE TRUE))

\* C7, amended: for a child that was spawned, the error of the CommandResult
\* is None exactly when standard error was empty, whatever success is, and
\* is otherwise the text of standard error; when the spawn failed, error is
\* the description of the spawn error.
C7_ErrorField ==
  \A t \in Threads :
    Done(t) =>
      IF calls[t].out.spawned
      THEN /\ calls[t].result.error = None <=> calls[t].out.stderr = << >>
           /\ calls[t].out.stderr # << >> =>
                calls[t].result.error = Some(from_utf8_lossy(calls[t].out.stderr))
           /\ calls[t].result.success = success(calls[t].out.status)
      ELSE /\ calls[t].result.error = Some(calls[t].out.err)
           /\ ~calls[t].result.success

C7_Witness ==
  /\ Done(Main) /\ ZeroExit(calls[Main])
  /\ calls[Main].out.stderr = <<255>>
  /\ calls[Main].result.success
  /\ calls[Main].result.error = Some(<<Replacement>>)

\* C9: a command makes exactly one spawn attempt before it returns, on every
\* path, and none after: no retry, no return without a spawn.
C9_OneSpawn ==
  \A t \in Threads :
    /\ calls[t].pc = "run" => calls[t].spawns = 0
    /\ calls[t].pc \in {"wait", "done"} => calls[t].spawns = 1

C9_Witness ==
  /\ Done(Main) /\ SpawnFailed(calls[Main])
  /\ calls[Main].op = "get_render_status"
  /\ calls[Main].spawns = 1 /\ ~calls[Main].ret.ok

\* The vector  python -m animatr status --job-id <id> --json  of a poll of
\* job id.
IsPollOf(argv, id) ==
  /\ Len(argv) = 7
  /\ SubSeq(argv, 1, 3) = <<Txt(<<"p", "y", "t", "h", "o", "n">>), Txt(<<"-", "m">>), Txt(<<"a", "n", "i", "m", "a", "t", "r">>)>>
  /\ IdVector(SubSeq(argv, 4, 7), W_status, W_job, id, TRUE)

\* What the child p handed back when it exited.
OutputOfChild(p) ==
  [spawned |-> TRUE, status |-> procs[p].status,
   stdout |-> procs[p].stdout, stderr |-> procs[p].stderr]

\* C8: when polls of different jobs run concurrently, the value a poll
\* returns is computed from the exit status, standard output and standard
\* error of the one child that was spawned with that poll's job id (from
\* the spawn error when its own spawn failed), never from another poll's
\* child.
C8_OwnSubprocess ==
  [][\A t \in Threads :
       (calls[t].pc = "wait" /\ calls'[t].pc = "done") =>
         IF calls[t].child = 0
         THEN calls'[t].ret = Err(calls[t].out.err)
         ELSE LET own == {p \in DOMAIN procs :
                            IsPollOf(procs[p].argv, calls[t].params.job_id)}
              IN  /\ Cardinality(own) = 1
                  /\ \A p \in own :
                       /\ procs[p].state = "exited"
                       /\ calls'[t].ret =
                            get_render_status_result(
                              run_python_command(OutputOfChild(p)))]_vars

\* Thread 1 has returned the status of its own child (pid 2) while the
\* child of thread 2, spawned before it (pid 1), has exited with other
\* output that thread 2 has yet to collect.
C8_Witness ==
  /\ NThreads >= 2
  /\ calls[1].pc = "done" /\ calls[1].child = 2 /\ calls[1].ret.ok
  /\ calls[2].pc = "wait" /\ calls[2].child = 1
  /\ calls[1].params.job_id # calls[2].params.job_id
  /\ procs[1].state = "exited" /\ procs[1].stdout = OutTruncated

\* C10: the bridge keeps nothing from one command to the next: two calls of
\* a session with the same command, parameters and child outcome (exit
\* status, standard output, standard error or spawn error) return the same
\* value, whatever came between and before them, failures included, and no
\* child is left over once a command has returned.
C10_Stateless ==
  /\ \A i, j \in 1..Len(history) :
       (/\ history[i].op = history[j].op
        /\ history[i].params = history[j].params
        /\ history[i].out = history[j].out)
         => history[i].ret = history[j].ret
  /\ calls[Main].pc \in {"idle", "done"} => DOMAIN procs = {}

\* A poll that failed to spawn, then the same poll succeeding.
C10_Witness ==
  /\ Len(history) >= 2
  /\ history[1].op = "get_render_status" /\ ~history[1].out.spawned
  /\ ~history[1].ret.ok
  /\ history[2].op = "get_render_status" /\ history[2].out.spawned
  /\ history[2].ret.ok

====
